---- MODULE Spec2Model ----
(***************************************************************************)
(* Model of the ATAC GTFS-RT ingestion pipeline                            *)
(* (atac-realtime/scripts/ingest.py and ingest_once.py):                   *)
(*   - the three entity flatteners (parse_vehicle_positions,               *)
(*     parse_trip_updates, parse_alerts) as pure operators;                *)
(*   - append_to_parquet as a read-modify-rewrite of a partition file,     *)
(*     step by step, so that a crash or an I/O error can fall between      *)
(*     the steps;                                                          *)
(*   - run_once, main and the single-shot entry point as processes.        *)
(*                                                                         *)
(* Encoding of Python values: a cell of a row is None (the empty tuple)    *)
(* or Some(v) (the one-element tuple holding v), so that None differs      *)
(* from every value, 0 and "" included.  An optional protobuf sub-message  *)
(* is encoded the same way; reading an absent sub-message gives the        *)
(* default message, as protobuf does.  Floats are integer stand-ins.       *)
(***************************************************************************)
EXTENDS Integers, Sequences, FiniteSets, TLC

\* ------------------------------------------------------------------ bounds
\* entities per feed message
MaxEntities == 2
\* stop_time_update / informed_entity / translation entries per entity
MaxFanout == 2

\* ------------------------------------------------------------ Python values
None == <<>>
Some(x) == <<x>>

\* `s or None` on a string
OrNone(s) == IF s = "" THEN None ELSE Some(s)

\* ------------------------------------------------------- protobuf messages
\* default (all fields unset) messages, returned when an absent
\* sub-message is read
DefaultTripDescriptor ==
    [trip_id |-> "", route_id |-> "", direction_id |-> 0, start_date |-> ""]

DefaultVehicleDescriptor == [id |-> "", label |-> ""]

DefaultPosition == [latitude |-> 0, longitude |-> 0, bearing |-> 0, speed |-> 0]

DefaultStopTimeEvent == [delay |-> 0, time |-> 0]

DefaultTranslatedString == [translation |-> <<>>]

DefaultVehiclePosition ==
    [trip |-> None, position |-> None, vehicle |-> None,
     current_stop_sequence |-> 0, stop_id |-> "", current_status |-> 2,
     timestamp |-> 0]

DefaultTripUpdate == [trip |-> None, vehicle |-> None, stop_time_update |-> <<>>]

DefaultAlert ==
    [informed_entity |-> <<>>, cause |-> 1, effect |-> 8,
     header_text |-> None, description_text |-> None]

\* a presence test that takes every sub-message for present
HasField_AlwaysPresent(msg, name) == TRUE

\* msg.HasField(name)
HasField(msg, name) == msg[name] # None

\* msg.name for a sub-message field: the sub-message, or its default
SubMsg(msg, name, default) == IF msg[name] = None THEN default ELSE msg[name][1]

\* ----------------------------------------------------------------- feeds
FEEDS == <<"vehicle_positions", "trip_updates", "alerts">>

FeedKinds == {FEEDS[n] : n \in 1..Len(FEEDS)}

\* ----------------------------------------------- parse_vehicle_positions
VehicleRow(ts, entity) ==
    LET vp == SubMsg(entity, "vehicle", DefaultVehiclePosition)
        has_trip == HasField(vp, "trip")
        has_pos == HasField(vp, "position")
        has_veh == HasField(vp, "vehicle")
        trip == SubMsg(vp, "trip", DefaultTripDescriptor)
        position == SubMsg(vp, "position", DefaultPosition)
        vehicle == SubMsg(vp, "vehicle", DefaultVehicleDescriptor)
    IN  [feed_timestamp |-> Some(ts),
         entity_id |-> Some(entity.id),
         trip_id |-> IF has_trip THEN Some(trip.trip_id) ELSE None,
         route_id |-> IF has_trip THEN Some(trip.route_id) ELSE None,
         direction_id |-> IF has_trip THEN Some(trip.direction_id) ELSE None,
         start_date |-> IF has_trip THEN Some(trip.start_date) ELSE None,
         vehicle_id |-> IF has_veh THEN Some(vehicle.id) ELSE None,
         vehicle_label |-> IF has_veh THEN Some(vehicle.label) ELSE None,
         latitude |-> IF has_pos THEN Some(position.latitude) ELSE None,
         longitude |-> IF has_pos THEN Some(position.longitude) ELSE None,
         bearing |-> IF has_pos THEN Some(position.bearing) ELSE None,
         speed |-> IF has_pos THEN Some(position.speed) ELSE None,
         current_stop_sequence |-> Some(vp.current_stop_sequence),
         stop_id |-> OrNone(vp.stop_id),
         current_status |-> Some(vp.current_status),
         vehicle_timestamp |-> Some(vp.timestamp)]

parse_vehicle_positions(feed) ==
    [n \in 1..Len(feed.entity) |-> VehicleRow(feed.header.timestamp, feed.entity[n])]

\* ---------------------------------------------------- parse_trip_updates
StopTimeRow(ts, entity, stu) ==
    LET tu == SubMsg(entity, "trip_update", DefaultTripUpdate)
        has_trip == HasField(tu, "trip")
        has_veh == HasField(tu, "vehicle")
        trip == SubMsg(tu, "trip", DefaultTripDescriptor)
        vehicle == SubMsg(tu, "vehicle", DefaultVehicleDescriptor)
        has_arr == HasField(stu, "arrival")
        has_dep == HasField(stu, "departure")
        arrival == SubMsg(stu, "arrival", DefaultStopTimeEvent)
        departure == SubMsg(stu, "departure", DefaultStopTimeEvent)
    IN  [feed_timestamp |-> Some(ts),
         entity_id |-> Some(entity.id),
         trip_id |-> IF has_trip THEN Some(trip.trip_id) ELSE None,
         route_id |-> IF has_trip THEN Some(trip.route_id) ELSE None,
         start_date |-> IF has_trip THEN Some(trip.start_date) ELSE None,
         vehicle_id |-> IF has_veh THEN Some(vehicle.id) ELSE None,
         stop_sequence |-> Some(stu.stop_sequence),
         stop_id |-> OrNone(stu.stop_id),
         arrival_delay |-> IF has_arr THEN Some(arrival.delay) ELSE None,
         arrival_time |-> IF has_arr THEN Some(arrival.time) ELSE None,
         departure_delay |-> IF has_dep THEN Some(departure.delay) ELSE None,
         departure_time |-> IF has_dep THEN Some(departure.time) ELSE None,
         schedule_relationship |-> Some(stu.schedule_relationship)]

\* an inner loop that skips the updates with neither arrival nor departure
TripUpdateRows_SkipBare(ts, entity) ==
    LET tu == SubMsg(entity, "trip_update", DefaultTripUpdate)
        Timed(stu) == HasField(stu, "arrival") \/ HasField(stu, "departure")
        kept == SelectSeq(tu.stop_time_update, Timed)
    IN  [j \in 1..Len(kept) |-> StopTimeRow(ts, entity, kept[j])]

\* the inner loop: one row per stop_time_update of one entity
TripUpdateRows(ts, entity) ==
    LET tu == SubMsg(entity, "trip_update", DefaultTripUpdate)
    IN  [j \in 1..Len(tu.stop_time_update) |->
            StopTimeRow(ts, entity, tu.stop_time_update[j])]

RECURSIVE TripUpdateLoop(_, _, _)
TripUpdateLoop(feed, n, rows) ==
    IF n > Len(feed.entity) THEN rows
    ELSE TripUpdateLoop(feed, n + 1,
                        rows \o TripUpdateRows(feed.header.timestamp, feed.entity[n]))

parse_trip_updates(feed) == TripUpdateLoop(feed, 1, <<>>)

\* ---------------------------------------------------------- parse_alerts
\* the informed entities without the placeholder for an empty list
Informed_NoPlaceholder(alert) ==
    [j \in 1..Len(alert.informed_entity) |-> Some(alert.informed_entity[j])]

\* list(alert.informed_entity) or [None]
Informed(alert) ==
    IF alert.informed_entity = <<>> THEN <<None>>
    ELSE [j \in 1..Len(alert.informed_entity) |-> Some(alert.informed_entity[j])]

\* text of the first translation of a text block, "" when there is none
FirstText(alert, name) ==
    LET block == SubMsg(alert, name, DefaultTranslatedString)
    IN  IF block.translation # <<>> THEN block.translation[1].text ELSE ""

AlertRow(ts, entity, ie) ==
    LET alert == SubMsg(entity, "alert", DefaultAlert)
    IN  [feed_timestamp |-> Some(ts),
         entity_id |-> Some(entity.id),
         cause |-> Some(alert.cause),
         effect |-> Some(alert.effect),
         header_text |-> Some(FirstText(alert, "header_text")),
         description_text |-> Some(FirstText(alert, "description_text")),
         route_id |-> IF ie # None /\ ie[1].route_id # ""
                      THEN Some(ie[1].route_id) ELSE None,
         trip_id |-> IF ie # None /\ HasField(ie[1], "trip")
                     THEN Some(SubMsg(ie[1], "trip", DefaultTripDescriptor).trip_id)
                     ELSE None,
         stop_id |-> IF ie # None /\ ie[1].stop_id # ""
                     THEN Some(ie[1].stop_id) ELSE None,
         agency_id |-> IF ie # None /\ ie[1].agency_id # ""
                       THEN Some(ie[1].agency_id) ELSE None]

AlertRows(ts, entity) ==
    LET informed == Informed(SubMsg(entity, "alert", DefaultAlert))
    IN  [j \in 1..Len(informed) |-> AlertRow(ts, entity, informed[j])]

RECURSIVE AlertLoop(_, _, _)
AlertLoop(feed, n, rows) ==
    IF n > Len(feed.entity) THEN rows
    ELSE AlertLoop(feed, n + 1,
                   rows \o AlertRows(feed.header.timestamp, feed.entity[n]))

parse_alerts(feed) == AlertLoop(feed, 1, <<>>)

PARSERS(feed_type, feed) ==
    CASE feed_type = "vehicle_positions" -> parse_vehicle_positions(feed)
      [] feed_type = "trip_updates" -> parse_trip_updates(feed)
      [] feed_type = "alerts" -> parse_alerts(feed)

\* ------------------------------------------------- bounded feed messages
Opt(present, x) == IF present THEN Some(x) ELSE None

Trip1 == [trip_id |-> "T1", route_id |-> "R1", direction_id |-> 1,
          start_date |-> "20240101"]

Vehicle1 == [id |-> "V1", label |-> "bus 1"]

Position1 == [latitude |-> 419, longitude |-> 125, bearing |-> 90, speed |-> 5]

EntityIds == <<"e1", "e2", "e3", "e4">>

VehiclePositions ==
    {[trip |-> Opt(t, Trip1), position |-> Opt(p, Position1),
      vehicle |-> Opt(v, Vehicle1), current_stop_sequence |-> 3,
      stop_id |-> s, current_status |-> 1, timestamp |-> 1700000001] :
        t \in BOOLEAN, p \in BOOLEAN, v \in BOOLEAN, s \in {"", "S1"}}

\* the j-th stop-time update of a list drawn with offset o: arrival and
\* departure are present or absent independently, stop_id is set or empty
StopTimeUpdate(j, o) ==
    LET v == (j + o) % 4
    IN  [stop_sequence |-> j,
         stop_id |-> IF (j + (o \div 2)) % 2 = 0 THEN "" ELSE "S1",
         arrival |-> Opt(v % 2 = 1, [delay |-> 60 * j, time |-> 1700000100 + j]),
         departure |-> Opt(v \div 2 = 1, [delay |-> 30 * j, time |-> 1700000200 + j]),
         schedule_relationship |-> 0]

TripUpdates ==
    {[trip |-> Opt(t, Trip1), vehicle |-> Opt(v, Vehicle1),
      stop_time_update |-> [j \in 1..k |-> StopTimeUpdate(j, o)]] :
        t \in BOOLEAN, v \in BOOLEAN, k \in 0..MaxFanout, o \in 0..3}

\* the j-th informed entity of a list drawn with offset o: a route, a trip,
\* a stop with its agency, or a selector with nothing set
EntitySelector(j, o) ==
    LET v == (j + o) % 4
    IN  [agency_id |-> IF v = 2 THEN "ATAC" ELSE "",
         route_id |-> IF v = 0 THEN "R1" ELSE "",
         trip |-> Opt(v = 1, Trip1),
         stop_id |-> IF v = 2 THEN "S1" ELSE ""]

\* a text block with k translations
TranslatedString(k, word) ==
    [translation |-> [j \in 1..k |->
        [text |-> IF j = 1 THEN word ELSE "translated", language |-> EntityIds[j]]]]

\* (header_text, description_text) pairs: absent, present without a
\* translation, present with one or several
TextBlocks ==
    {<<None, None>>,
     <<None, Some(TranslatedString(1, "detail"))>>,
     <<Some(TranslatedString(0, "")), None>>,
     <<Some(TranslatedString(1, "strike")), Some(TranslatedString(MaxFanout, "detail"))>>,
     <<Some(TranslatedString(MaxFanout, "strike")), Some(TranslatedString(0, ""))>>}

Alerts ==
    {[informed_entity |-> [j \in 1..k |-> EntitySelector(j, o)],
      cause |-> 4, effect |-> 3,
      header_text |-> tb[1], description_text |-> tb[2]] :
        k \in 0..MaxFanout, o \in 0..3, tb \in TextBlocks}

\* the payloads an entity of a feed of one kind can carry: one of the
\* messages above, or nothing (an entity of another variant)
Payloads(feed_type) ==
    {None} \cup
    {Some(m) : m \in CASE feed_type = "vehicle_positions" -> VehiclePositions
                       [] feed_type = "trip_updates" -> TripUpdates
                       [] feed_type = "alerts" -> Alerts}

Entity(id, feed_type, payload) ==
    [id |-> id,
     vehicle |-> IF feed_type = "vehicle_positions" THEN payload ELSE None,
     trip_update |-> IF feed_type = "trip_updates" THEN payload ELSE None,
     alert |-> IF feed_type = "alerts" THEN payload ELSE None]

FeedMessage(feed_type, payloads) ==
    [header |-> [timestamp |-> 1700000000],
     entity |-> [n \in 1..Len(payloads) |-> Entity(EntityIds[n], feed_type, payloads[n])]]

SeqsUpTo(S, max) == UNION {[1..n -> S] : n \in 0..max}

FeedMessages(feed_type) ==
    {FeedMessage(feed_type, ps) : ps \in SeqsUpTo(Payloads(feed_type), MaxEntities)}

\* ------------------------------------------------------- Partition Store
\* clock readings per UTC calendar day, and the last clock reading
TicksPerDay == 2
MaxClock == 2
\* the endpoints serve this many non-empty feed messages, then empty ones
MaxServed == 2
\* cycles are counted up to this number
MaxCycles == 2

\* the date of the machine's own time zone, one tick ahead of UTC
Today_Local(now) == (now + 1) \div TicksPerDay

\* datetime.now(timezone.utc).strftime("%Y-%m-%d"): the UTC calendar date of
\* a clock reading
Today(now) == now \div TicksPerDay

Dates == {Today(t) : t \in 0..MaxClock}

\* RAW_DIR / feed_type / f"{today}.parquet"
Path(feed_type, today) == <<feed_type, today>>

Paths == FeedKinds \X Dates

\* a partition file: its rows, and whether its footer has been written
\* (a file without footer cannot be read back)
NoFile == [exists |-> FALSE, data |-> <<>>, complete |-> FALSE]

\* pd.concat in the wrong order: the new rows before the existing ones
Concat_NewFirst(existing, df) == df \o existing

\* pd.concat([existing, df], ignore_index=True)
Concat(existing, df) == existing \o df

\* ------------------------------------------------------- file contents
\* What the bytes of a partition file amount to.  Every writer has its own
\* position in the file: it writes the rows of its frame from the start and
\* its footer right after them.  How many bytes a frame encodes to is not
\* modelled, so when bytes of two different frames meet in one file, whether
\* the later write covers all of the earlier one is left open.

\* no bytes: the file was opened for writing and nothing has reached it
Empty == <<"empty">>

\* the rows of a frame from the start of the file, and no footer
RowsOf(frame) == <<"rows", frame>>

\* the footer of a frame where its writer put it, and no rows before it (the
\* file was truncated in between)
FooterOf(frame) == <<"footer", frame>>

\* the rows of a frame and then its footer: the file df.to_parquet makes of
\* the frame
ImageOf(frame) == <<"image", frame>>

\* bytes of different frames, or bytes after the footer: not a Parquet file
Mixed == <<"mixed">>

\* the rows of a frame are written at the start of a file
FlushRows(c, frame) ==
    IF c \in {Empty, RowsOf(frame)} THEN {RowsOf(frame)}
    ELSE IF c \in {FooterOf(frame), ImageOf(frame)} THEN {ImageOf(frame)}
    ELSE {RowsOf(frame), Mixed}

\* the footer of a frame is written where the rows of the frame end.  On
\* mixed bytes that begin with the rows of the frame, a footer that reaches
\* the end of the file completes the file image of the frame.
PutFooter(c, frame) ==
    IF c \in {RowsOf(frame), ImageOf(frame)} THEN {ImageOf(frame)}
    ELSE IF c \in {Empty, FooterOf(frame)} THEN {FooterOf(frame)}
    ELSE IF c = Mixed THEN {ImageOf(frame), Mixed}
    ELSE {Mixed}

\* the whole file image of a frame is written at the start of a file
PutImage(c, frame) ==
    IF c \in {Empty, RowsOf(frame), FooterOf(frame), ImageOf(frame)} THEN {ImageOf(frame)}
    ELSE {ImageOf(frame), Mixed}

\* path.exists() and pd.read_parquet(path) on a file of the given content:
\* only a whole file image reads back
FileOf(c) ==
    [exists |-> TRUE,
     data |-> IF c[1] \in {"rows", "image"} THEN c[2] ELSE <<>>,
     complete |-> c[1] = "image"]

\* ---------------------------------------------------------------- state
Instances == {"main", "once"}

VARIABLES
    clock,      \* the UTC clock
    served,     \* the non-empty feed messages the endpoints have served
    store,      \* the partition files under RAW_DIR, by path, as they read back
    content,    \* the partition files under RAW_DIR, by path: what their bytes are
    dirs,       \* the feed kinds whose directory exists under RAW_DIR
    pc,         \* each instance's position in its code
    crashed,    \* the instances whose process was killed
    i,          \* run_once: index into FEEDS of the current iteration
    feed,       \* run_once: the fetched feed message
    rows,       \* run_once: the flattened rows
    df,         \* append_to_parquet: the data frame to write
    path,       \* append_to_parquet: the resolved partition path
    flushed,    \* df.to_parquet: the rows have reached the file before the close
    called,     \* history: the UTC date on which the append call began
    before,     \* history: the partition file as append_to_parquet found it
    attempted,  \* history: the feed kinds attempted in the current cycle
    failed,     \* history: the feed kinds whose attempt raised in this cycle
    cycles,     \* history: cycles begun, counted up to MaxCycles
    open,       \* history: append_to_parquet calls begun and not yet ended
    appended,   \* history: the rows of the calls that returned, by path
    in_kind, in_feed, out_rows, flat_pc   \* a flattening run (see below)

poll_vars == <<clock, served, store, content, dirs, pc, crashed, i, feed, rows, df, path,
               flushed, called, before,
               attempted, failed, cycles, open, appended>>

flat_vars == <<in_kind, in_feed, out_rows, flat_pc>>

vars == <<clock, served, store, content, dirs, pc, crashed, i, feed, rows, df, path,
          flushed, called, before,
          attempted, failed, cycles, open, appended,
          in_kind, in_feed, out_rows, flat_pc>>

env_vars == <<clock, served, in_kind, in_feed, out_rows, flat_pc>>

\* the feed messages the three endpoints serve to the poll loop
Served(feed_type) ==
    LET first == CASE feed_type = "vehicle_positions" ->
                        [trip |-> Some(Trip1), position |-> Some(Position1),
                         vehicle |-> Some(Vehicle1), current_stop_sequence |-> 3,
                         stop_id |-> "S1", current_status |-> 1,
                         timestamp |-> 1700000001]
                   [] feed_type = "trip_updates" ->
                        [trip |-> Some(Trip1), vehicle |-> None,
                         stop_time_update |-> <<StopTimeUpdate(1, 0)>>]
                   [] feed_type = "alerts" ->
                        [informed_entity |-> <<>>, cause |-> 4, effect |-> 3,
                         header_text |-> None, description_text |-> None]
        second == CASE feed_type = "vehicle_positions" ->
                        [trip |-> None, position |-> Some(Position1),
                         vehicle |-> None, current_stop_sequence |-> 0,
                         stop_id |-> "", current_status |-> 2, timestamp |-> 0]
                    [] feed_type = "trip_updates" ->
                        [trip |-> None, vehicle |-> Some(Vehicle1),
                         stop_time_update |-> <<StopTimeUpdate(1, 1), StopTimeUpdate(2, 1)>>]
                    [] feed_type = "alerts" ->
                        [informed_entity |-> <<EntitySelector(1, 3), EntitySelector(2, 3)>>,
                         cause |-> 4, effect |-> 3,
                         header_text |-> Some(TranslatedString(1, "strike")),
                         description_text |-> None]
    IN  {FeedMessage(feed_type, <<>>),
         FeedMessage(feed_type, <<Some(first)>>),
         FeedMessage(feed_type, <<Some(second)>>)}

NoFeed == [header |-> [timestamp |-> 0], entity |-> <<>>]

\* the instances of `started` are launched on an empty RAW_DIR
PollInit(started) ==
    /\ clock = 0
    /\ served = 0
    /\ store = [q \in Paths |-> NoFile]
    /\ content = [q \in Paths |-> Empty]
    /\ dirs = {}
    /\ pc = [p \in Instances |-> IF p \in started THEN "start" ELSE "off"]
    /\ crashed = [p \in Instances |-> FALSE]
    /\ i = [p \in Instances |-> 1]
    /\ feed = [p \in Instances |-> NoFeed]
    /\ rows = [p \in Instances |-> <<>>]
    /\ df = [p \in Instances |-> <<>>]
    /\ path = [p \in Instances |-> Path(FEEDS[1], 0)]
    /\ flushed = [p \in Instances |-> FALSE]
    /\ called = [p \in Instances |-> 0]
    /\ before = [p \in Instances |-> NoFile]
    /\ attempted = [p \in Instances |-> <<>>]
    /\ failed = [p \in Instances |-> {}]
    /\ cycles = [p \in Instances |-> 0]
    /\ open = [p \in Instances |-> [k \in FeedKinds |-> 0]]
    /\ appended = [q \in Paths |-> <<>>]

\* nothing of the poll loop runs
PollIdle == PollInit({})

FlatIdle ==
    /\ in_kind = FEEDS[1]
    /\ in_feed = NoFeed
    /\ out_rows = <<>>
    /\ flat_pc = "off"

\* one instance is started: the polling entry point or the single-shot one
Init == (\E p \in Instances : PollInit({p})) /\ FlatIdle

Running(p) == pc[p] \notin {"off", "exit"} /\ ~crashed[p]

\* ------------------------------------------------------------- run_once
\* run_once is entered: a cycle begins
BeginCycle(p) ==
    /\ pc' = [pc EXCEPT ![p] = "for"]
    /\ i' = [i EXCEPT ![p] = 1]
    /\ attempted' = [attempted EXCEPT ![p] = <<>>]
    /\ failed' = [failed EXCEPT ![p] = {}]
    /\ cycles' = [cycles EXCEPT ![p] = IF @ < MaxCycles THEN @ + 1 ELSE @]

\* for feed_type, url in FEEDS.items(): the next iteration enters the try block
ForNext(p) ==
    /\ Running(p)
    /\ pc[p] = "for"
    /\ i[p] <= Len(FEEDS)
    /\ pc' = [pc EXCEPT ![p] = "fetch"]
    /\ attempted' = [attempted EXCEPT ![p] = Append(@, FEEDS[i[p]])]
    /\ UNCHANGED <<flushed, called,
                   store, content, dirs, crashed, i, feed, rows, df, path, before, failed,
                   cycles, open, appended, env_vars>>

\* fetch_feed returns a decoded feed message
FetchOk(p) ==
    /\ Running(p)
    /\ pc[p] = "fetch"
    /\ \E m \in Served(FEEDS[i[p]]) :
         /\ m.entity # <<>> => served < MaxServed
         /\ served' = IF m.entity # <<>> THEN served + 1 ELSE served
         /\ feed' = [feed EXCEPT ![p] = m]
    /\ pc' = [pc EXCEPT ![p] = "parse"]
    /\ UNCHANGED <<flushed, called,
                   store, content, dirs, crashed, i, rows, df, path, before,
                   attempted, failed, cycles, open, appended, clock, flat_vars>>

\* the locals of an iteration are dead once it ends
ClearLocals(p) ==
    /\ feed' = [feed EXCEPT ![p] = NoFeed]
    /\ rows' = [rows EXCEPT ![p] = <<>>]
    /\ df' = [df EXCEPT ![p] = <<>>]
    /\ path' = [path EXCEPT ![p] = Path(FEEDS[1], 0)]
    /\ flushed' = [flushed EXCEPT ![p] = FALSE]
    /\ called' = [called EXCEPT ![p] = 0]
    /\ before' = [before EXCEPT ![p] = NoFile]

\* an exception leaves the try block
Raise(p) ==
    /\ pc' = [pc EXCEPT ![p] = "except"]
    /\ failed' = [failed EXCEPT ![p] = @ \cup {FEEDS[i[p]]}]
    /\ open' = [open EXCEPT ![p] = [k \in FeedKinds |-> 0]]
    /\ ClearLocals(p)

\* fetch_feed raises: the request fails, the status is not a success
\* (raise_for_status) or the payload does not decode
FetchRaise(p) ==
    /\ Running(p)
    /\ pc[p] = "fetch"
    /\ Raise(p)
    /\ UNCHANGED <<store, content, dirs, crashed, i, attempted, cycles, appended, env_vars>>

\* rows = PARSERS[feed_type](feed)
Parse(p) ==
    /\ Running(p)
    /\ pc[p] = "parse"
    /\ rows' = [rows EXCEPT ![p] = PARSERS(FEEDS[i[p]], feed[p])]
    /\ pc' = [pc EXCEPT ![p] = "append"]
    /\ UNCHANGED <<flushed, called,
                   store, content, dirs, crashed, i, feed, df, path, before, attempted,
                   failed, cycles, open, appended, env_vars>>

\* an exception is raised while the parser runs
ParseRaise(p) ==
    /\ Running(p)
    /\ pc[p] = "parse"
    /\ Raise(p)
    /\ UNCHANGED <<store, content, dirs, crashed, i, attempted, cycles, appended, env_vars>>

\* ---------------------------------------------------- append_to_parquet
\* if not rows: return
AppendNothing(p) ==
    /\ Running(p)
    /\ pc[p] = "append"
    /\ rows[p] = <<>>
    /\ pc' = [pc EXCEPT ![p] = "log"]
    /\ UNCHANGED <<flushed, called,
                   store, content, dirs, crashed, i, feed, rows, df, path, before,
                   attempted, failed, cycles, open, appended, env_vars>>

\* the data frame is built, the path resolved from the clock, the directory
\* made
AppendBegin(p) ==
    /\ Running(p)
    /\ pc[p] = "append"
    /\ rows[p] # <<>>
    /\ df' = [df EXCEPT ![p] = rows[p]]
    /\ path' = [path EXCEPT ![p] = Path(FEEDS[i[p]], Today(clock))]
    /\ called' = [called EXCEPT ![p] = clock \div TicksPerDay]
    /\ dirs' = dirs \cup {FEEDS[i[p]]}
    /\ open' = [open EXCEPT ![p][FEEDS[i[p]]] = @ + 1]
    /\ pc' = [pc EXCEPT ![p] = "exists"]
    /\ UNCHANGED <<flushed, store, content, crashed, i, feed, rows, before, attempted,
                   failed, cycles, appended, env_vars>>

\* pd.DataFrame(rows) or out_dir.mkdir(parents=True, exist_ok=True) raises
\* (RAW_DIR is not writable, or is a file): nothing is made
AppendRaise(p) ==
    /\ Running(p)
    /\ pc[p] = "append"
    /\ rows[p] # <<>>
    /\ Raise(p)
    /\ UNCHANGED <<store, content, dirs, crashed, i, attempted, cycles, appended, env_vars>>

\* if path.exists()
Exists(p) ==
    /\ Running(p)
    /\ pc[p] = "exists"
    /\ before' = [before EXCEPT ![p] = store[path[p]]]
    /\ pc' = [pc EXCEPT ![p] = IF store[path[p]].exists THEN "read" ELSE "write"]
    /\ UNCHANGED <<flushed, called,
                   store, content, dirs, crashed, i, feed, rows, df, path, attempted,
                   failed, cycles, open, appended, env_vars>>

\* path.exists() raises (the directory of the partition cannot be searched)
ExistsRaise(p) ==
    /\ Running(p)
    /\ pc[p] = "exists"
    /\ Raise(p)
    /\ UNCHANGED <<store, content, dirs, crashed, i, attempted, cycles, appended, env_vars>>

\* existing = pd.read_parquet(path); df = pd.concat([existing, df])
Read(p) ==
    /\ Running(p)
    /\ pc[p] = "read"
    /\ store[path[p]].complete
    /\ df' = [df EXCEPT ![p] = Concat(store[path[p]].data, @)]
    /\ before' = [before EXCEPT ![p] = store[path[p]]]
    /\ pc' = [pc EXCEPT ![p] = "write"]
    /\ UNCHANGED <<flushed, called,
                   store, content, dirs, crashed, i, feed, rows, path, attempted,
                   failed, cycles, open, appended, env_vars>>

\* pd.read_parquet raises: always on a file that does not read back, and on
\* any file when the read itself fails (the open fails, no engine)
ReadRaise(p) ==
    /\ Running(p)
    /\ pc[p] = "read"
    /\ Raise(p)
    /\ UNCHANGED <<store, content, dirs, crashed, i, attempted, cycles, appended, env_vars>>

\* the partition is read once more right before it is rewritten, and the
\* frame built again from what it holds by then
WriteOpen_Reread(p) ==
    /\ Running(p)
    /\ pc[p] = "write"
    /\ df' = [df EXCEPT ![p] = Concat(store[path[p]].data, rows[p])]
    /\ content' = [content EXCEPT ![path[p]] = Empty]
    /\ store' = [store EXCEPT ![path[p]] = FileOf(Empty)]
    /\ pc' = [pc EXCEPT ![p] = "write_data"]
    /\ UNCHANGED <<flushed, called, dirs, crashed, i, feed, rows, path, before,
                   attempted, failed, cycles, open, appended, env_vars>>

\* df.to_parquet(path) opens the path for writing, which truncates it
WriteOpen(p) ==
    /\ Running(p)
    /\ pc[p] = "write"
    /\ content' = [content EXCEPT ![path[p]] = Empty]
    /\ store' = [store EXCEPT ![path[p]] = FileOf(Empty)]
    /\ pc' = [pc EXCEPT ![p] = "write_data"]
    /\ UNCHANGED <<flushed, called, dirs, crashed, i, feed, rows, df, path, before,
                   attempted, failed, cycles, open, appended, env_vars>>

\* df.to_parquet(path) encodes the rows into the buffer of its file handle.
\* A frame that fits the buffer stays there until the close and the file is
\* as it was; a larger one is flushed to the start of the file.
WriteData(p) ==
    /\ Running(p)
    /\ pc[p] = "write_data"
    /\ \/ /\ flushed' = [flushed EXCEPT ![p] = FALSE]
          /\ UNCHANGED <<store, content>>
       \/ /\ flushed' = [flushed EXCEPT ![p] = TRUE]
          /\ \E c \in FlushRows(content[path[p]], df[p]) :
                /\ content' = [content EXCEPT ![path[p]] = c]
                /\ store' = [store EXCEPT ![path[p]] = FileOf(c)]
    /\ pc' = [pc EXCEPT ![p] = "write_close"]
    /\ UNCHANGED <<called, dirs, crashed, i, feed, rows, df, path, before, attempted,
                   failed, cycles, open, appended, env_vars>>

\* df.to_parquet(path) raises: the open fails and the file is as it was, or
\* the write of the rows or of the footer fails (the disk is full) and the
\* file stays as far as it was written
WriteRaise(p) ==
    /\ Running(p)
    /\ pc[p] \in {"write", "write_data", "write_close"}
    /\ Raise(p)
    /\ UNCHANGED <<store, content, dirs, crashed, i, attempted, cycles, appended, env_vars>>

\* df.to_parquet(path) closes its file handle, which writes what is still in
\* the buffer at the handle's own position: the footer after the rows that
\* were flushed, or else the whole file image from the start.  The call
\* returns.
WriteClose(p) ==
    /\ Running(p)
    /\ pc[p] = "write_close"
    /\ \E c \in (IF flushed[p] THEN PutFooter(content[path[p]], df[p])
                 ELSE PutImage(content[path[p]], df[p])) :
          /\ content' = [content EXCEPT ![path[p]] = c]
          /\ store' = [store EXCEPT ![path[p]] = FileOf(c)]
    /\ flushed' = [flushed EXCEPT ![p] = FALSE]
    /\ appended' = [appended EXCEPT ![path[p]] = @ \o rows[p]]
    /\ open' = [open EXCEPT ![p][FEEDS[i[p]]] = @ - 1]
    /\ pc' = [pc EXCEPT ![p] = "log"]
    /\ UNCHANGED <<called, dirs, crashed, i, feed, rows, df, path, before, attempted,
                   failed, cycles, env_vars>>

\* ------------------------------------------------- run_once, continued
\* log.info("%s: %d rows", ...): the iteration ends
LogRows(p) ==
    /\ Running(p)
    /\ pc[p] = "log"
    /\ i' = [i EXCEPT ![p] = @ + 1]
    /\ ClearLocals(p)
    /\ pc' = [pc EXCEPT ![p] = "for"]
    /\ UNCHANGED <<store, content, dirs, crashed, attempted, failed, cycles, open,
                   appended, env_vars>>

\* no except clause: the exception leaves run_once and ends the process
Except_Uncaught(p) ==
    /\ Running(p)
    /\ pc[p] = "except"
    /\ pc' = [pc EXCEPT ![p] = "exit"]
    /\ UNCHANGED <<flushed, called,
                   store, content, dirs, crashed, i, feed, rows, df, path, before,
                   attempted, failed, cycles, open, appended, env_vars>>

\* except Exception: log.exception(...): the iteration ends
Except(p) ==
    /\ Running(p)
    /\ pc[p] = "except"
    /\ i' = [i EXCEPT ![p] = @ + 1]
    /\ pc' = [pc EXCEPT ![p] = "for"]
    /\ UNCHANGED <<flushed, called,
                   store, content, dirs, crashed, feed, rows, df, path, before,
                   attempted, failed, cycles, open, appended, env_vars>>

\* the for loop of run_once is exhausted: run_once returns
RunOnceReturned(p) == pc[p] = "for" /\ i[p] > Len(FEEDS)

\* ----------------------------------------------------------------- main
\* main logs its start and calls run_once for the first time
MainStart ==
    /\ Running("main")
    /\ pc["main"] = "start"
    /\ BeginCycle("main")
    /\ UNCHANGED <<flushed, called,
                   store, content, dirs, crashed, feed, rows, df, path, before, open,
                   appended, env_vars>>

\* a loop that does not wait for run_once to return
MainLoopReady_NoWait == pc["main"] \notin {"off", "start", "sleep"}

\* run_once() has returned to the while loop
MainLoopReady == RunOnceReturned("main")

\* while True: run_once() has returned; time.sleep(60) begins
MainSleep ==
    /\ Running("main")
    /\ MainLoopReady
    /\ pc' = [pc EXCEPT !["main"] = "sleep"]
    /\ UNCHANGED <<flushed, called,
                   store, content, dirs, crashed, i, feed, rows, df, path, before,
                   attempted, failed, cycles, open, appended, env_vars>>

\* time.sleep(60) returns and the loop calls run_once again
MainWake ==
    /\ Running("main")
    /\ pc["main"] = "sleep"
    /\ BeginCycle("main")
    /\ UNCHANGED <<flushed, called,
                   store, content, dirs, crashed, feed, rows, df, path, before, open,
                   appended, env_vars>>

\* ---------------------------------------------------------- ingest_once
\* if __name__ == "__main__": run_once()
OnceStart ==
    /\ Running("once")
    /\ pc["once"] = "start"
    /\ BeginCycle("once")
    /\ UNCHANGED <<flushed, called,
                   store, content, dirs, crashed, feed, rows, df, path, before, open,
                   appended, env_vars>>

\* a single-shot entry point that calls run_once again
OnceExit_Again ==
    /\ Running("once")
    /\ RunOnceReturned("once")
    /\ BeginCycle("once")
    /\ UNCHANGED <<flushed, called,
                   store, content, dirs, crashed, feed, rows, df, path, before, open,
                   appended, env_vars>>

\* run_once() has returned: the script ends
OnceExit ==
    /\ Running("once")
    /\ RunOnceReturned("once")
    /\ pc' = [pc EXCEPT !["once"] = "exit"]
    /\ UNCHANGED <<flushed, called,
                   store, content, dirs, crashed, i, feed, rows, df, path, before,
                   attempted, failed, cycles, open, appended, env_vars>>

\* ---------------------------------------------------------- environment
\* the UTC clock advances
Tick ==
    /\ clock < MaxClock
    /\ clock' = clock + 1
    /\ UNCHANGED <<flushed, called,
                   served, store, content, dirs, pc, crashed, i, feed, rows, df, path,
                   before, attempted, failed, cycles, open, appended, flat_vars>>

\* the process of an instance is killed (or the machine stops) at any point
Crash(p) ==
    /\ Running(p)
    /\ crashed' = [crashed EXCEPT ![p] = TRUE]
    /\ UNCHANGED <<flushed, called,
                   store, content, dirs, pc, i, feed, rows, df, path, before, attempted,
                   failed, cycles, open, appended, env_vars>>

\* one step of the code of instance p
Step(p) ==
    \/ ForNext(p)
    \/ FetchOk(p)
    \/ FetchRaise(p)
    \/ Parse(p)
    \/ ParseRaise(p)
    \/ AppendNothing(p)
    \/ AppendBegin(p)
    \/ AppendRaise(p)
    \/ Exists(p)
    \/ ExistsRaise(p)
    \/ Read(p)
    \/ ReadRaise(p)
    \/ WriteOpen(p)
    \/ WriteData(p)
    \/ WriteRaise(p)
    \/ WriteClose(p)
    \/ LogRows(p)
    \/ Except(p)

Entry == MainStart \/ MainSleep \/ MainWake \/ OnceStart \/ OnceExit

Next ==
    \/ \E p \in Instances : Step(p)
    \/ Entry
    \/ Tick
    \/ \E p \in Instances : Crash(p)

Spec == Init /\ [][Next]_vars

\* the same instances when no process is killed; a process that can take a
\* step of its code eventually takes one (requests.get has a timeout,
\* time.sleep returns)
LiveNext ==
    \/ \E p \in Instances : Step(p)
    \/ Entry
    \/ Tick

LiveSpec == Init /\ [][LiveNext]_vars /\ WF_vars((\E p \in Instances : Step(p)) \/ Entry)

\* Two instances on the same RAW_DIR within one UTC day and with no process
\* killed: the polling loop and a single-shot run launched beside it.  Every
\* step of either may fail the way it does for one instance.
RaceInit == PollInit(Instances) /\ FlatIdle

RaceNext ==
    \/ \E p \in Instances : Step(p)
    \/ Entry

RaceSpec == RaceInit /\ [][RaceNext]_vars

\* --------------------------------------------- claims on the poll loop
IsPrefix(s, t) == Len(s) <= Len(t) /\ s = SubSeq(t, 1, Len(s))

\* C1: in every poll cycle the feed kinds are attempted once each in the order
\* of FEEDS, and an exception of one kind's fetch, flatten or store stage does
\* not keep the remaining kinds from being attempted: when run_once is over,
\* all of FEEDS has been attempted.
C1_EveryFeedAttempted ==
    \A p \in Instances :
        /\ IsPrefix(attempted[p], FEEDS)
        /\ pc[p] \in {"fetch", "parse", "append", "exists", "read", "write",
                      "write_data", "write_close", "log", "except"} =>
              Len(attempted[p]) = i[p]
        /\ (RunOnceReturned(p) \/ pc[p] \in {"sleep", "exit"}) =>
              attempted[p] = FEEDS

\* run_once is over, the first two feed kinds raised and the third was stored
C1_Witness ==
    \E p \in Instances :
        /\ RunOnceReturned(p)
        /\ failed[p] = {"vehicle_positions", "trip_updates"}
        /\ attempted[p] = FEEDS
        /\ appended[Path("alerts", Today(clock))] # <<>>

AppendWriting == {"read", "write", "write_data", "write_close"}

\* C2: the rewrite is atomic: when the process is killed during an append to
\* an existing partition, the file holds the complete old content or the
\* complete new content (the old rows, then the new rows).
C2_AtomicRewrite ==
    \A p \in Instances :
        (crashed[p] /\ pc[p] \in AppendWriting /\ before[p].exists /\ before[p].complete) =>
            \/ store[path[p]] = before[p]
            \/ store[path[p]] = [exists |-> TRUE, complete |-> TRUE,
                                 data |-> before[p].data \o rows[p]]

C8_OneWriterPerPartition ==
    \A k \in FeedKinds :
        /\ open["main"][k] <= 1
        /\ open["main"][k] = 1 =>
              pc["main"] \in {"exists"} \cup AppendWriting /\ FEEDS[i["main"]] = k
        /\ (pc["main"] \in {"for", "sleep"}) => open["main"][k] = 0

\* the polling process, in its second cycle, is writing a partition its
\* first cycle wrote
C8_Witness ==
    /\ cycles["main"] = 2
    /\ pc["main"] = "write_data"
    /\ ~crashed["main"]
    /\ before["main"].complete
    /\ appended[path["main"]] # <<>>
    /\ open["main"][FEEDS[i["main"]]] = 1

\* s is t with some entries left out
RECURSIVE IsSubSeq(_, _)
IsSubSeq(s, t) ==
    IF s = <<>> THEN TRUE
    ELSE IF t = <<>> THEN FALSE
    ELSE IF Head(s) = Head(t) THEN IsSubSeq(Tail(s), Tail(t))
    ELSE IsSubSeq(s, Tail(t))

\* C11: two instances race on the read-modify-rewrite of a partition.  A call
\* looks at the path once: the frame it rewrites the partition with is what
\* it found then followed by its own rows, whatever the partition holds by
\* the time it is rewritten; and a partition that reads back holds rows of
\* calls that returned only, in call order.  So rows another call appended in
\* between are lost, which is the state of C11_Witness: both calls returned
\* without error and one of the two batches is missing.
C11_StaleRewrite ==
    /\ \A p \in Instances :
          pc[p] \in {"write", "write_data", "write_close"} =>
              df[p] = before[p].data \o rows[p]
    /\ \A q \in Paths : store[q].complete => IsSubSeq(store[q].data, appended[q])

\* both instances have appended a batch to the same partition and both calls
\* have returned without error (the single-shot run has ended, the polling
\* loop sleeps after its first cycle), and the partition, which reads back,
\* holds fewer rows than the two calls appended
C11_Witness ==
    /\ pc["once"] = "exit"
    /\ pc["main"] = "sleep"
    /\ cycles["main"] = 1
    /\ failed["main"] = {}
    /\ failed["once"] = {}
    /\ \E q \in Paths :
          /\ store[q].complete
          /\ store[q].data # <<>>
          /\ Len(appended[q]) > Len(store[q].data)
          /\ \A r \in Paths \ {q} : appended[r] = <<>>

\* the steps of append_to_parquet after the path is resolved
InAppend == {"exists", "read", "write", "write_data", "write_close"}

\* C12: processing one feed kind changes at most one partition, the one of
\* that feed kind and of the UTC date at the moment of the append call.  A
\* step changes a partition file only while an instance that holds a
\* non-empty flattened batch is inside df.to_parquet, and then only the file
\* of the feed kind of its iteration and of the date its append call began
\* on; a directory is made only by such an instance entering the call, and
\* only the one of that feed kind; the feed kind and the date stay the same
\* all through the call.  An iteration whose fetch or flattening failed, or
\* whose batch is empty, holds no such batch, so it changes and makes nothing.
C12_OnePartitionPerFeed ==
    /\ [][\A q \in Paths :
              (store'[q] # store[q] \/ content'[q] # content[q]) =>
                  \E p \in Instances :
                      /\ rows[p] # <<>>
                      /\ pc[p] \in {"write", "write_data", "write_close"}
                      /\ q = <<FEEDS[i[p]], called[p]>>]_vars
    /\ [][dirs' # dirs =>
              \E p \in Instances :
                  /\ rows[p] # <<>>
                  /\ pc[p] = "append"
                  /\ dirs' = dirs \cup {FEEDS[i[p]]}]_vars
    /\ [][\A p \in Instances :
              (pc[p] \in InAppend /\ pc'[p] \in InAppend) =>
                  called'[p] = called[p] /\ i'[p] = i[p]]_vars

\* a batch was written in full to the partition of the date its append call
\* began on, midnight UTC passed meanwhile, and the partition of the new date
\* was not made
C12_Witness ==
    \E p \in Instances :
        /\ pc[p] = "log"
        /\ rows[p] # <<>>
        /\ path[p] = <<FEEDS[i[p]], 0>>
        /\ called[p] = 0
        /\ clock \div TicksPerDay = 1
        /\ store[path[p]].complete
        /\ store[path[p]].data # <<>>
        /\ store[<<FEEDS[i[p]], 1>>] = NoFile

CycleBegins(p) == pc[p] = "for" /\ i[p] = 1

\* C9: main never ends and no failure stops it: a cycle begins only at the
\* start of main or out of its sleep, and cycles begin again and again, so
\* after any exception the loop reaches its sleep and then a new cycle.
C9_MainPollsForever ==
    /\ [](pc["main"] # "exit")
    /\ [][(CycleBegins("main")' /\ ~CycleBegins("main")) =>
              pc["main"] \in {"start", "sleep"}]_vars
    /\ []<>(pc["main"] = "off" \/ CycleBegins("main"))

\* main sleeps after a second cycle in which all three feed kinds raised
C9_Witness ==
    /\ pc["main"] = "sleep"
    /\ cycles["main"] = 2
    /\ failed["main"] = FeedKinds

\* C10: the single-shot entry point performs exactly one cycle, attempting
\* each feed kind once, and then ends, whether or not a feed kind failed.
C10_OnceRunsOneCycle ==
    /\ [](cycles["once"] <= 1)
    /\ [](pc["once"] = "exit" => cycles["once"] = 1 /\ attempted["once"] = FEEDS)
    /\ (pc["once"] = "start") ~> (pc["once"] = "exit")

\* the single-shot run has ended after a cycle in which a feed kind raised
\* and another was stored
C10_Witness ==
    /\ pc["once"] = "exit"
    /\ cycles["once"] = 1
    /\ failed["once"] # {}
    /\ \E q \in Paths : appended[q] # <<>>

\* ------------------------------------------------------------ flattening
\* A flattening run: a feed kind and a decoded feed message of that kind
\* are drawn, then the kind's parser is applied.
FlatInit ==
    /\ in_kind \in FeedKinds
    /\ in_feed \in FeedMessages(in_kind)
    /\ out_rows = <<>>
    /\ flat_pc = "decoded"
    /\ PollIdle

Flatten(feed_type) ==
    /\ flat_pc = "decoded"
    /\ in_kind = feed_type
    /\ out_rows' = PARSERS(feed_type, in_feed)
    /\ flat_pc' = "flattened"
    /\ UNCHANGED <<in_kind, in_feed>>
    /\ UNCHANGED poll_vars

FlattenVehiclePositions == Flatten("vehicle_positions")

FlattenTripUpdates == Flatten("trip_updates")

FlattenAlerts == Flatten("alerts")

FlatNext == FlattenVehiclePositions \/ FlattenTripUpdates \/ FlattenAlerts

FlatSpec == FlatInit /\ [][FlatNext]_vars

\* ------------------------------------------------- claims on flattening
\* sum of the first n entries of a sequence of numbers
RECURSIVE SumPrefix(_, _)
SumPrefix(c, n) == IF n = 0 THEN 0 ELSE c[n] + SumPrefix(c, n - 1)

Flattened(feed_type) == flat_pc = "flattened" /\ in_kind = feed_type

\* the trip update of the n-th entity of the input feed, as the source
\* message states it (None when the entity carries none)
StopTimeUpdatesOf(n) ==
    IF in_feed.entity[n].trip_update = None THEN <<>>
    ELSE in_feed.entity[n].trip_update[1].stop_time_update

StopTimeCounts == [n \in 1..Len(in_feed.entity) |-> Len(StopTimeUpdatesOf(n))]

\* what the trip-level field of the n-th entity is expected to be
TripLevel(n, sub, name) ==
    LET tu == in_feed.entity[n].trip_update
    IN  IF tu = None THEN None
        ELSE IF tu[1][sub] = None THEN None ELSE Some(tu[1][sub][1][name])

\* C4: a trip-update entity with K stop-time updates gives exactly K rows, in
\* stop-time-update order, all with the entity's id and its trip-level fields
\* (trip_id, route_id, start_date, vehicle_id); the feed's row count is the
\* sum of K over its entities.
C4_TripUpdateFanout ==
    Flattened("trip_updates") =>
        /\ Len(out_rows) = SumPrefix(StopTimeCounts, Len(in_feed.entity))
        /\ \A n \in 1..Len(in_feed.entity) :
             \A j \in 1..StopTimeCounts[n] :
                LET row == out_rows[SumPrefix(StopTimeCounts, n - 1) + j]
                IN  /\ row.entity_id = Some(in_feed.entity[n].id)
                    /\ row.stop_sequence = Some(StopTimeUpdatesOf(n)[j].stop_sequence)
                    /\ row.trip_id = TripLevel(n, "trip", "trip_id")
                    /\ row.route_id = TripLevel(n, "trip", "route_id")
                    /\ row.start_date = TripLevel(n, "trip", "start_date")
                    /\ row.vehicle_id = TripLevel(n, "vehicle", "id")

\* a flattened feed with an entity without stop-time updates followed by one
\* with several, which has a trip descriptor
C4_Witness ==
    /\ Flattened("trip_updates")
    /\ Len(in_feed.entity) = 2
    /\ StopTimeCounts[1] = 0
    /\ StopTimeCounts[2] >= 2
    /\ in_feed.entity[2].trip_update[1].trip # None
    /\ Len(out_rows) = StopTimeCounts[2]

\* the informed entities of the n-th entity of the input feed
InformedOf(n) ==
    IF in_feed.entity[n].alert = None THEN <<>>
    ELSE in_feed.entity[n].alert[1].informed_entity

\* rows expected of each alert entity: M, or 1 when M = 0
AlertCounts ==
    [n \in 1..Len(in_feed.entity) |->
        IF Len(InformedOf(n)) = 0 THEN 1 ELSE Len(InformedOf(n))]

\* C5: an alert entity with M informed entities gives exactly M rows when
\* M >= 1 and exactly 1 row when M = 0, whose route_id, trip_id, stop_id and
\* agency_id are all None; every alert entity has at least one row.
C5_AlertFanout ==
    Flattened("alerts") =>
        /\ Len(out_rows) = SumPrefix(AlertCounts, Len(in_feed.entity))
        /\ \A n \in 1..Len(in_feed.entity) :
             /\ \A j \in 1..AlertCounts[n] :
                  out_rows[SumPrefix(AlertCounts, n - 1) + j].entity_id
                      = Some(in_feed.entity[n].id)
             /\ \E j \in 1..Len(out_rows) :
                  out_rows[j].entity_id = Some(in_feed.entity[n].id)
             /\ Len(InformedOf(n)) = 0 =>
                  LET row == out_rows[SumPrefix(AlertCounts, n - 1) + 1]
                  IN  /\ row.route_id = None
                      /\ row.trip_id = None
                      /\ row.stop_id = None
                      /\ row.agency_id = None

\* a flattened feed with an alert without informed entities and one with
\* several
C5_Witness ==
    /\ Flattened("alerts")
    /\ Len(in_feed.entity) = 2
    /\ in_feed.entity[1].alert # None
    /\ Len(InformedOf(1)) = 0
    /\ Len(InformedOf(2)) >= 2
    /\ Len(out_rows) = 1 + Len(InformedOf(2))

\* the cell expected of a field the sub-structure `sub` of the vehicle
\* position of the n-th entity supplies
VehicleLevel(n, sub, name) ==
    LET vp == in_feed.entity[n].vehicle
    IN  IF vp = None THEN None
        ELSE IF vp[1][sub] = None THEN None ELSE Some(vp[1][sub][1][name])

\* C6: one row per vehicle-position entity, whatever sub-structures it has;
\* every field of an absent Trip, Vehicle or Position is None (and holds the
\* sub-structure's value otherwise), so without Position latitude, longitude,
\* bearing and speed are all None.
C6_VehicleRows ==
    Flattened("vehicle_positions") =>
        /\ Len(out_rows) = Len(in_feed.entity)
        /\ \A n \in 1..Len(in_feed.entity) :
             LET row == out_rows[n]
             IN  /\ row.entity_id = Some(in_feed.entity[n].id)
                 /\ row.trip_id = VehicleLevel(n, "trip", "trip_id")
                 /\ row.route_id = VehicleLevel(n, "trip", "route_id")
                 /\ row.direction_id = VehicleLevel(n, "trip", "direction_id")
                 /\ row.start_date = VehicleLevel(n, "trip", "start_date")
                 /\ row.vehicle_id = VehicleLevel(n, "vehicle", "id")
                 /\ row.vehicle_label = VehicleLevel(n, "vehicle", "label")
                 /\ row.latitude = VehicleLevel(n, "position", "latitude")
                 /\ row.longitude = VehicleLevel(n, "position", "longitude")
                 /\ row.bearing = VehicleLevel(n, "position", "bearing")
                 /\ row.speed = VehicleLevel(n, "position", "speed")

\* a flattened feed whose first entity has a Trip and a Vehicle but no
\* Position and whose second has only a Position
C6_Witness ==
    /\ Flattened("vehicle_positions")
    /\ Len(in_feed.entity) = 2
    /\ in_feed.entity[1].vehicle # None
    /\ in_feed.entity[1].vehicle[1].position = None
    /\ in_feed.entity[1].vehicle[1].trip # None
    /\ in_feed.entity[2].vehicle # None
    /\ in_feed.entity[2].vehicle[1].position # None
    /\ in_feed.entity[2].vehicle[1].trip = None
    /\ out_rows[1].latitude = None
    /\ out_rows[2].latitude # None

\* the fixed field set of each feed kind's rows
Fields(feed_type) ==
    CASE feed_type = "vehicle_positions" ->
            {"feed_timestamp", "entity_id", "trip_id", "route_id", "direction_id",
             "start_date", "vehicle_id", "vehicle_label", "latitude", "longitude",
             "bearing", "speed", "current_stop_sequence", "stop_id",
             "current_status", "vehicle_timestamp"}
      [] feed_type = "trip_updates" ->
            {"feed_timestamp", "entity_id", "trip_id", "route_id", "start_date",
             "vehicle_id", "stop_sequence", "stop_id", "arrival_delay",
             "arrival_time", "departure_delay", "departure_time",
             "schedule_relationship"}
      [] feed_type = "alerts" ->
            {"feed_timestamp", "entity_id", "cause", "effect", "header_text",
             "description_text", "route_id", "trip_id", "stop_id", "agency_id"}

\* every row has the fixed field set of its kind and every cell is None or
\* one value
FixedFieldSet ==
    flat_pc = "flattened" =>
        \A j \in 1..Len(out_rows) :
            /\ DOMAIN out_rows[j] = Fields(in_kind)
            /\ \A f \in Fields(in_kind) : Len(out_rows[j][f]) <= 1

\* the stop-time update a trip-update row comes from
RECURSIVE StopTimeSource(_, _)
StopTimeSource(n, j) ==
    IF j <= StopTimeCounts[n] THEN StopTimeUpdatesOf(n)[j]
    ELSE StopTimeSource(n + 1, j - StopTimeCounts[n])

\* the fields of an absent arrival or departure of a stop-time update are None
StopTimeAbsence ==
    Flattened("trip_updates") =>
        \A j \in 1..Len(out_rows) :
            LET stu == StopTimeSource(1, j)
            IN  /\ stu.arrival = None =>
                     out_rows[j].arrival_delay = None /\ out_rows[j].arrival_time = None
                /\ stu.departure = None =>
                     out_rows[j].departure_delay = None /\ out_rows[j].departure_time = None

\* the (entity index, informed-entity index) an alert row comes from
RECURSIVE AlertSource(_, _)
AlertSource(n, j) ==
    IF j <= AlertCounts[n] THEN <<n, j>> ELSE AlertSource(n + 1, j - AlertCounts[n])

\* the trip_id of an alert row whose informed entity has no trip is None
InformedAbsence ==
    Flattened("alerts") =>
        \A j \in 1..Len(out_rows) :
            LET src == AlertSource(1, j)
                ies == InformedOf(src[1])
            IN  (ies = <<>> \/ ies[src[2]].trip = None) => out_rows[j].trip_id = None

\* the text fields of an alert row whose alert lacks the text block are None
TextBlockAbsence ==
    Flattened("alerts") =>
        \A j \in 1..Len(out_rows) :
            LET alert == in_feed.entity[AlertSource(1, j)[1]].alert
            IN  alert # None =>
                  /\ alert[1].header_text = None => out_rows[j].header_text = None
                  /\ alert[1].description_text = None =>
                       out_rows[j].description_text = None

\* C7 without the alert text blocks: the fixed field set, and None in every
\* field of an absent Trip, Vehicle, Position, arrival, departure or
\* informed-entity trip
C7_ExceptTextBlocks ==
    /\ FixedFieldSet
    /\ C4_TripUpdateFanout
    /\ C6_VehicleRows
    /\ StopTimeAbsence
    /\ InformedAbsence

\* C7: every row of a feed kind has the same fixed field set, and every field
\* whose source sub-structure is absent, an alert's header and description
\* text blocks included, holds None, which differs from 0 and from "".
C7_AbsenceEverywhere == C7_ExceptTextBlocks /\ TextBlockAbsence


====
